---- MODULE Spec2Model ----
(***************************************************************************)
(* The video ingestion worker of src/main.py with the result store of      *)
(* src/postgres_wrapper.py: the scan loop, the content-addressed dedup     *)
(* gate (redis), the per-file pipeline, the upsert keyed by filename and   *)
(* the relocation of every selected file.                                  *)
(*                                                                         *)
(* The process is one sequential worker; pc is its position in __main__.   *)
(* The environment drops files into the input folder, makes collaborator   *)
(* calls fail, and kills and restarts the process.                         *)
(***************************************************************************)
EXTENDS Integers, Sequences, FiniteSets, TLC

VARIABLES
    inputDir,        \* CONFIG["input_folder"]: file name -> bytes, or NoFile
    processedDir,    \* CONFIG["processed_folder"]: file name -> bytes, or NoFile
    poseDir,         \* CONFIG["pose_data_folder"]: the sidecar paths written
    redis,           \* the keys SET in the dedup store
    rows,            \* the committed rows of table CONFIG["db_table_name"]
    server_time,     \* the database server's CURRENT_TIMESTAMP
    connection,      \* PostgresWrapper.connection: "None", "open" or "closed"
    pc,              \* position of the process in __main__
    exitBy,          \* why the process is down: "none", "kill", "exception",
                     \* "KeyError" (line 24) or "sys.exit" (line 196)
    listing,         \* what is left of os.listdir(...) in the for loop
    file,            \* loop variable `file`
    file_hash,       \* local file_hash
    should_process,  \* local should_process
    video_metadata,  \* local video_metadata
    raised,          \* an exception is propagating out of the try statement
    trace,           \* the calls made for the current file, in order
    handled,         \* history: <<name, bytes>> whose upsert was committed
    arrivals,        \* number of files dropped into the input folder so far
    faults,          \* number of collaborator failures so far
    kills,           \* number of times the process was killed so far
    CONFIG,          \* the keys of config.json, as loaded at line 15
    parked           \* a second instance of the process, while it is not
                     \* the one taking the step: its pc and its locals

vars == <<inputDir, processedDir, poseDir, redis, rows, server_time, connection,
          pc, exitBy, listing, file, file_hash, should_process, video_metadata,
          raised, trace, handled, arrivals, faults, kills, CONFIG, parked>>

-----------------------------------------------------------------------------
(* Bounds of the model *)

MaxArrivals == 2
MaxFaults == 1
MaxKills == 1
MaxTime == 2

-----------------------------------------------------------------------------
(* The environment's values *)

FileNames == {"a.mp4", "B.MP4", "notes.txt"}
Bytes == {1, 2}
NoFile == 0
NoName == ""
NoHash == ""
NoMeta == [video_filename |-> NoName, duration_seconds |-> 0, resolution |-> "",
           codec |-> "", frame_rate |-> "", corrupted |-> "", pose_file_path |-> ""]

\* config.json
\* main.py:27-28
expected_config_keys == {"input_folder", "pose_data_folder", "processed_folder",
                         "scan_interval_sec", "model_path",
                         "supported_file_formats", "db_table_name"}
supported_formats == {".mp4", ".avi"}
pose_data_folder == "pose_data"

\* What a decoder sees in a file with the given bytes: 1 is a valid clip of
\* 10 frames at 5 fps, 2 does not open as a video, 3 opens but no frame can
\* be read, the others are valid clips; a path with no file does not open.
Video(b) ==
    CASE b = NoFile -> [opened |-> FALSE, frame_count |-> 0, fps100 |-> 0,
                        width |-> 0, height |-> 0, codec |-> "", frames |-> FALSE]
      [] b = 1 -> [opened |-> TRUE, frame_count |-> 10, fps100 |-> 500,
                   width |-> 640, height |-> 480, codec |-> "h264", frames |-> TRUE]
      [] b = 2 -> [opened |-> FALSE, frame_count |-> 0, fps100 |-> 0,
                   width |-> 0, height |-> 0, codec |-> "", frames |-> FALSE]
      [] b = 3 -> [opened |-> TRUE, frame_count |-> 30, fps100 |-> 2997,
                   width |-> 1280, height |-> 720, codec |-> "vp9", frames |-> FALSE]
      [] OTHER -> [opened |-> TRUE, frame_count |-> 30, fps100 |-> 2997,
                   width |-> 1280, height |-> 720, codec |-> "vp9", frames |-> TRUE]

-----------------------------------------------------------------------------
(* Pure functions of main.py *)

\* hashlib.md5(bytes).hexdigest(): the leading hex digits of the digests of
\* the texts "1", "2", ...; distinct bytes have distinct digests.
md5(b) ==
    CASE b = 1 -> "c4ca4238"
      [] b = 2 -> "c81e728d"
      [] b = 3 -> "eccbc87e"
      [] b = 4 -> "a87ff679"
      [] OTHER -> "e4da3b7f" \o ToString(b)

LowerChar(c) ==
    CASE c = "A" -> "a" [] c = "B" -> "b" [] c = "M" -> "m" [] c = "P" -> "p"
      [] c = "V" -> "v" [] c = "I" -> "i" [] OTHER -> c

RECURSIVE LowerFrom(_, _)
LowerFrom(s, i) ==
    IF i > Len(s) THEN "" ELSE LowerChar(SubSeq(s, i, i)) \o LowerFrom(s, i + 1)

\* str.lower()
lower(s) == LowerFrom(s, 1)

\* str.endswith(tuple)
endswith(s, suffixes) ==
    \E suf \in suffixes :
        /\ Len(s) >= Len(suf)
        /\ SubSeq(s, Len(s) - Len(suf) + 1, Len(s)) = suf

\* main.py:213
IsCandidate(f) == endswith(lower(f), supported_formats)

\* The file names the filter of line 213 lets through.
Candidates == {n \in FileNames : IsCandidate(n)}

RECURSIVE LastDot(_, _)
LastDot(s, i) ==
    IF i = 0 THEN 0 ELSE IF SubSeq(s, i, i) = "." THEN i ELSE LastDot(s, i - 1)

\* os.path.splitext(filename)[0]
splitext_name(s) ==
    LET d == LastDot(s, Len(s)) IN IF d <= 1 THEN s ELSE SubSeq(s, 1, d - 1)

\* f'{x:.2f}' of x = x100 / 100
Fmt2f(x100) ==
    ToString(x100 \div 100) \o "." \o
    (IF x100 % 100 < 10 THEN "0" ELSE "") \o ToString(x100 % 100)

\* VideoProcessingResultFields(filename): the dataclass defaults.
\* duration_seconds is kept in milliseconds; the float default 0.0 of
\* frame_rate is written "0.0".
VideoProcessingResultFields(filename) ==
    [video_filename |-> filename, duration_seconds |-> 0, resolution |-> "N/A",
     codec |-> "N/A", frame_rate |-> "0.0", corrupted |-> "None",
     pose_file_path |-> "N/A"]

\* get_video_codec: the codec ffprobe reports, "N/A" when it reports no
\* stream or when running it or parsing its output raises.
get_video_codec(v, ffprobe_ok) ==
    IF ffprobe_ok /\ v.opened THEN v.codec ELSE "N/A"

\* An init_config that accepts every configuration.
init_config_Lenient(config) == TRUE

\* init_config: every expected key is in CONFIG.
init_config(config) == \A key \in expected_config_keys : key \in config

\* The exit status of the process for each way it goes down: an uncaught
\* exception and sys.exit(1) give 1, SIGKILL gives 137.
ExitStatus(by) ==
    CASE by = "sys.exit" -> 1
      [] by = "KeyError" -> 1
      [] by = "exception" -> 1
      [] by = "kill" -> 137
      [] OTHER -> 0

\* An extract_metadata that gives up its partial result: after any failure,
\* that of codec detection included, the defaults are returned.
extract_metadata_Aborts(filename, v, done, ffprobe_ok) ==
    IF done = 4 /\ ffprobe_ok
    THEN [VideoProcessingResultFields(filename) EXCEPT
            !.frame_rate = Fmt2f(v.fps100),
            !.duration_seconds = IF v.fps100 # 0
                                 THEN (v.frame_count * 100000) \div v.fps100 ELSE 0,
            !.resolution = ToString(v.width) \o " x " \o ToString(v.height),
            !.codec = get_video_codec(v, TRUE)]
    ELSE VideoProcessingResultFields(filename)

\* extract_metadata: `done` is the number of assignments of the try block
\* completed before an exception is raised in it (4: none is raised).
extract_metadata(filename, v, done, ffprobe_ok) ==
    LET m0 == VideoProcessingResultFields(filename)
        m1 == IF done >= 1 THEN [m0 EXCEPT !.frame_rate = Fmt2f(v.fps100)] ELSE m0
        m2 == IF done >= 2
              THEN [m1 EXCEPT !.duration_seconds =
                        IF v.fps100 # 0
                        THEN (v.frame_count * 100000) \div v.fps100 ELSE 0]
              ELSE m1
        m3 == IF done >= 3
              THEN [m2 EXCEPT !.resolution =
                        ToString(v.width) \o " x " \o ToString(v.height)]
              ELSE m2
        m4 == IF done >= 4
              THEN [m3 EXCEPT !.codec = get_video_codec(v, ffprobe_ok)]
              ELSE m3
    IN m4

\* is_corrupted
is_corrupted(v) ==
    IF ~v.opened THEN TRUE
    ELSE IF ~v.frames THEN TRUE
    ELSE FALSE

\* pose_detection: the sidecar path os.path.join(pose_data_folder, name_pose.json)
json_path(filename) ==
    pose_data_folder \o "/" \o splitext_name(filename) \o "_pose.json"

-----------------------------------------------------------------------------
(* The stores *)

\* A lookup that never finds the key.
r_exists_Blind(key, store) == FALSE

\* redis: EXISTS key
r_exists(key, store) == key \in store

\* A store that keeps only the last key set.
r_set_Replace(key, store) == {key}

\* redis: SET key "processed"
r_set(key, store) == store \cup {key}

\* A gate that skips every file.
ShouldProcessAfter_Never(exists) == FALSE

\* A gate that ignores the answer of r.exists.
ShouldProcessAfter_Always(exists) == TRUE

\* main.py:221-225: the dedup gate's decision from the answer of r.exists
ShouldProcessAfter(exists) == ~exists

\* An except clause that goes on to the marking of the else clause.
\* An except clause after which the record is persisted all the same.
AfterExcept_Persists == "persist"

AfterExcept_MarksAnyway == "mark"

\* An except clause that starts the handling of the file again.
AfterExcept_Retry == "hash"

\* A loop that relocates on the success path only: after an exception is
\* logged the for loop goes on with the next file.
AfterExcept_NoFinally == "for"

\* main.py:237-245: an exception raised in the try block is caught and
\* logged, and the finally clause runs next
AfterExcept == "finally"

\* A loop that runs pose detection whatever the verdict.
RunsPose_Always(corrupted) == TRUE

\* main.py:228: pose detection runs for a file that is not corrupted
RunsPose(corrupted) == ~corrupted

\* PostgresWrapper.is_connected
is_connected(conn) == conn # "None" /\ conn = "open"

Row(row_data, now) ==
    [video_filename |-> row_data.video_filename,
     duration_seconds |-> row_data.duration_seconds,
     resolution |-> row_data.resolution,
     codec |-> row_data.codec,
     frame_rate |-> row_data.frame_rate,
     corrupted |-> row_data.corrupted,
     pose_file_path |-> row_data.pose_file_path,
     processed_at |-> now]

\* An INSERT without the ON CONFLICT clause, on a table without the unique
\* constraint: a second row is added for the filename.
Upsert_PlainInsert(table, row_data, now) == table \cup {Row(row_data, now)}

\* ON CONFLICT (video_filename) DO NOTHING: the first row is kept.
Upsert_DoNothing(table, row_data, now) ==
    IF \E r \in table : r.video_filename = row_data.video_filename
    THEN table
    ELSE table \cup {Row(row_data, now)}

\* The committed statement of db_insert: INSERT ... ON CONFLICT
\* (video_filename) DO UPDATE SET every field, processed_at = CURRENT_TIMESTAMP
Upsert(table, row_data, now) ==
    IF \E r \in table : r.video_filename = row_data.video_filename
    THEN {IF r.video_filename = row_data.video_filename
          THEN Row(row_data, now) ELSE r : r \in table}
    ELSE table \cup {Row(row_data, now)}

\* shutil.move(video_path, destination): rename into the processed folder
ShutilMove(d, f) ==
    [input |-> [d.input EXCEPT ![f] = NoFile],
     processed |-> [d.processed EXCEPT ![f] = d.input[f]]]

-----------------------------------------------------------------------------
(* Initial state: nothing has run, the folders and the stores are empty *)

\* The pc and the locals of one instance of the process.
ProcessState(p, by, conn, l, f, h, sp, vm, ra, t) ==
    [pc |-> p, exitBy |-> by, connection |-> conn, listing |-> l, file |-> f,
     file_hash |-> h, should_process |-> sp, video_metadata |-> vm,
     raised |-> ra, trace |-> t]

\* An instance that has just been launched, and the absence of one.
Launched == ProcessState("start", "none", "None", <<>>, NoName, NoHash, TRUE,
                         NoMeta, FALSE, <<>>)
NoProcess == [Launched EXCEPT !.pc = "absent"]

Init ==
    /\ inputDir = [n \in FileNames |-> NoFile]
    /\ processedDir = [n \in FileNames |-> NoFile]
    /\ poseDir = {}
    /\ redis = {}
    /\ rows = {}
    /\ server_time = 0
    /\ connection = "None"
    /\ pc = "start"
    /\ exitBy = "none"
    /\ listing = <<>>
    /\ file = NoName
    /\ file_hash = NoHash
    /\ should_process = TRUE
    /\ video_metadata = NoMeta
    /\ raised = FALSE
    /\ trace = <<>>
    /\ handled = {}
    /\ arrivals = 0
    /\ faults = 0
    /\ kills = 0
    /\ CONFIG \in SUBSET expected_config_keys
    /\ parked = NoProcess

PerFile == {"hash", "exists", "metadata", "corrupt", "pose", "persist", "mark", "finally"}
Running == PerFile \cup {"start", "scan", "for", "sleep"}

stores == <<redis, rows, server_time, handled>>
dirs == <<inputDir, processedDir, poseDir>>
env == <<arrivals, kills>>
locals == <<listing, file, file_hash, should_process, video_metadata, raised, trace>>

\* The path of `f` in the input folder names a file.
Present(f) == inputDir[f] # NoFile

\* A collaborator call may fail only while the fault budget lasts.
MayFail(ok) == ok \/ faults < MaxFaults
FaultsAfter(ok) == IF ok THEN faults ELSE faults + 1

Log(event) == Append(trace, event)

-----------------------------------------------------------------------------
(* The environment *)

\* A producer drops a file into the input folder.
Arrive ==
    /\ arrivals < MaxArrivals
    /\ \E n \in FileNames, b \in Bytes :
        /\ inputDir[n] = NoFile
        /\ n \notin Candidates => b = 1
        /\ inputDir' = [inputDir EXCEPT ![n] = b]
    /\ arrivals' = arrivals + 1
    /\ UNCHANGED <<CONFIG, parked, processedDir, poseDir, stores, connection, pc, exitBy, locals,
                   faults, kills>>

\* The process is terminated externally; its memory is lost. `file` and
\* `trace` are kept to tell which file was being handled and how far.
Kill ==
    /\ pc \in Running
    /\ kills < MaxKills
    /\ kills' = kills + 1
    /\ pc' = "down"
    /\ exitBy' = "kill"
    /\ file' = IF pc \in PerFile THEN file ELSE NoName
    /\ listing' = <<>>
    /\ file_hash' = NoHash
    /\ should_process' = TRUE
    /\ video_metadata' = NoMeta
    /\ raised' = FALSE
    /\ connection' = "None"
    /\ trace' = IF pc \in PerFile THEN trace ELSE <<>>
    /\ UNCHANGED <<CONFIG, parked, dirs, stores, arrivals, faults>>

\* The process is started again.
Restart ==
    /\ pc = "down"
    /\ pc' = "start"
    /\ exitBy' = "none"
    /\ file' = NoName
    /\ trace' = <<>>
    /\ UNCHANGED <<CONFIG, parked, dirs, stores, connection, listing, file_hash, should_process,
                   video_metadata, raised, env, faults>>

-----------------------------------------------------------------------------
(* __main__ *)

\* main.py:24 and 192-196: CONFIG["model_path"] raises KeyError while the
\* module is loaded; otherwise init_config() returns False and the process
\* calls sys.exit(1).
ConfigExit ==
    /\ pc = "start"
    /\ "model_path" \notin CONFIG \/ ~init_config(CONFIG)
    /\ pc' = "down"
    /\ exitBy' = IF "model_path" \notin CONFIG THEN "KeyError" ELSE "sys.exit"
    /\ UNCHANGED <<CONFIG, parked, dirs, stores, connection, locals, env, faults>>

\* main.py:192-207: the configuration is valid, the folders are made,
\* PostgresWrapper() connects or logs the failure and keeps connection None.
Start ==
    /\ pc = "start"
    /\ "model_path" \in CONFIG
    /\ init_config(CONFIG)
    /\ \E ok \in BOOLEAN :
        /\ MayFail(ok)
        /\ connection' = IF ok THEN "open" ELSE "None"
        /\ faults' = FaultsAfter(ok)
    /\ pc' = "scan"
    /\ UNCHANGED <<CONFIG, parked, dirs, stores, exitBy, locals, env>>

\* main.py:212: os.listdir, in the order the file system gives.
ListDir ==
    /\ pc = "scan"
    /\ LET present == {n \in FileNames : inputDir[n] # NoFile} IN
       \E s \in [1..Cardinality(present) -> present] :
            /\ \A i, j \in DOMAIN s : i # j => s[i] # s[j]
            /\ listing' = s
    /\ pc' = "for"
    /\ UNCHANGED <<CONFIG, parked, dirs, stores, connection, exitBy, file, file_hash, should_process,
                   video_metadata, raised, trace, env, faults>>

\* main.py:212, 247-248: the listing is exhausted.
ForExhausted ==
    /\ pc = "for"
    /\ listing = <<>>
    /\ pc' = "sleep"
    /\ file' = NoName
    /\ trace' = <<>>
    /\ UNCHANGED <<CONFIG, parked, dirs, stores, connection, exitBy, listing, file_hash, should_process,
                   video_metadata, raised, env, faults>>

\* main.py:213: a file whose name does not end with a supported extension.
ForOther ==
    /\ pc = "for"
    /\ listing # <<>>
    /\ Head(listing) \notin Candidates
    /\ file' = Head(listing)
    /\ listing' = Tail(listing)
    /\ trace' = <<>>
    /\ UNCHANGED <<CONFIG, parked, dirs, stores, connection, pc, exitBy, file_hash, should_process,
                   video_metadata, raised, env, faults>>

\* main.py:213-217: a candidate file is selected.
ForSelect ==
    /\ pc = "for"
    /\ listing # <<>>
    /\ Head(listing) \in Candidates
    /\ file' = Head(listing)
    /\ listing' = Tail(listing)
    /\ should_process' = TRUE
    /\ file_hash' = NoHash
    /\ video_metadata' = NoMeta
    /\ trace' = <<>>
    /\ pc' = "hash"
    /\ UNCHANGED <<CONFIG, parked, dirs, stores, connection, exitBy, raised, env, faults>>

\* main.py:248: time.sleep(scan_interval_sec)
Sleep ==
    /\ pc = "sleep"
    /\ pc' = "scan"
    /\ UNCHANGED <<CONFIG, parked, dirs, stores, connection, exitBy, locals, env, faults>>

\* main.py:220: file_hash = md5(open(full_path, 'rb').read()).hexdigest();
\* an unreadable file, or one that is no longer there, raises into the
\* except clause of line 237.
Fingerprint ==
    /\ pc = "hash"
    /\ \E ok \in BOOLEAN :
        /\ ok => Present(file)
        /\ Present(file) => MayFail(ok)
        /\ faults' = IF Present(file) THEN FaultsAfter(ok) ELSE faults
        /\ IF ok
           THEN /\ file_hash' = md5(inputDir[file])
                /\ trace' = Log("md5")
                /\ pc' = "exists"
           ELSE /\ file_hash' = file_hash
                /\ trace' = Log("md5:raise")
                /\ pc' = AfterExcept
    /\ UNCHANGED <<CONFIG, parked, dirs, stores, connection, exitBy, listing, file, should_process,
                   video_metadata, raised, env>>

\* main.py:221-225: r.exists(file_hash); on a hit the pipeline is skipped and
\* the else clause of line 239 does nothing.
Exists ==
    /\ pc = "exists"
    /\ \E ok \in BOOLEAN :
        /\ MayFail(ok)
        /\ faults' = FaultsAfter(ok)
        /\ IF ok
           THEN LET hit == r_exists(file_hash, redis) IN
                /\ should_process' = ShouldProcessAfter(hit)
                /\ trace' = Log(IF hit THEN "exists:hit" ELSE "exists:miss")
                /\ pc' = IF should_process' THEN "metadata" ELSE "finally"
           ELSE /\ should_process' = should_process
                /\ trace' = Log("exists:raise")
                /\ pc' = AfterExcept
    /\ UNCHANGED <<CONFIG, parked, dirs, stores, connection, exitBy, listing, file, file_hash,
                   video_metadata, raised, env>>

\* main.py:226: video_metadata = extract_metadata(full_path); it never raises,
\* an exception inside leaves the fields assigned so far.
ExtractMetadata ==
    /\ pc = "metadata"
    /\ \E done \in 0..4, ffprobe_ok \in BOOLEAN :
        /\ done < 4 => ffprobe_ok
        /\ MayFail(done = 4 /\ ffprobe_ok)
        /\ faults' = FaultsAfter(done = 4 /\ ffprobe_ok)
        /\ video_metadata' = extract_metadata(file, Video(inputDir[file]), done, ffprobe_ok)
        /\ trace' = IF done < 4
                     THEN trace \o <<"extract_metadata", "except:" \o ToString(done)>>
                     ELSE IF ~ffprobe_ok
                     THEN trace \o <<"extract_metadata", "ffprobe:fail">>
                     ELSE Log("extract_metadata")
    /\ pc' = "corrupt"
    /\ UNCHANGED <<CONFIG, parked, dirs, stores, connection, exitBy, listing, file, file_hash,
                   should_process, raised, env>>

\* main.py:228-233: is_corrupted(full_path) and the branch on its verdict.
IsCorrupted ==
    /\ pc = "corrupt"
    /\ \E ok \in BOOLEAN :
        /\ MayFail(ok)
        /\ faults' = FaultsAfter(ok)
        /\ IF ok
           THEN LET corrupted == is_corrupted(Video(inputDir[file])) IN
                /\ trace' = Log("is_corrupted")
                /\ IF RunsPose(corrupted)
                   THEN /\ pc' = "pose"
                        /\ video_metadata' = video_metadata
                   ELSE /\ pc' = "persist"
                        /\ video_metadata' = [video_metadata EXCEPT !.corrupted = "True"]
           ELSE /\ trace' = Log("is_corrupted:raise")
                /\ pc' = AfterExcept
                /\ video_metadata' = video_metadata
    /\ UNCHANGED <<CONFIG, parked, dirs, stores, connection, exitBy, listing, file, file_hash,
                   should_process, raised, env>>

\* main.py:229-230 and pose_detection: "ok" writes the sidecar and returns its
\* path, "inner" is an exception inside the try block (logged, 'N/A' is
\* returned), "write" is an exception while writing the sidecar in the else
\* clause, which leaves pose_detection and reaches line 237.
PoseDetection ==
    /\ pc = "pose"
    /\ \E outcome \in {"ok", "inner", "write"} :
        /\ MayFail(outcome = "ok")
        /\ faults' = FaultsAfter(outcome = "ok")
        /\ CASE outcome = "ok" ->
                /\ poseDir' = poseDir \cup {json_path(file)}
                /\ video_metadata' = [video_metadata EXCEPT
                        !.pose_file_path = json_path(file), !.corrupted = "False"]
                /\ trace' = Log("pose_detection")
                /\ pc' = "persist"
             [] outcome = "inner" ->
                /\ poseDir' = poseDir
                /\ video_metadata' = [video_metadata EXCEPT
                        !.pose_file_path = "N/A", !.corrupted = "False"]
                /\ trace' = Log("pose_detection")
                /\ pc' = "persist"
             [] outcome = "write" ->
                /\ poseDir' = poseDir
                /\ video_metadata' = video_metadata
                /\ trace' = Log("pose_detection:raise")
                /\ pc' = AfterExcept
    /\ UNCHANGED <<CONFIG, parked, inputDir, processedDir, stores, connection, exitBy, listing, file,
                   file_hash, should_process, raised, env>>

\* main.py:235: is_connected is False, db_insert is not called.
SkipInsert ==
    /\ pc = "persist"
    /\ ~is_connected(connection)
    /\ pc' = "mark"
    /\ UNCHANGED <<CONFIG, parked, dirs, stores, connection, exitBy, locals, env, faults>>

\* main.py:236 and db_insert: "commit" executes and commits the upsert;
\* "rollback" is an error that db_insert logs and rolls back, returning None;
\* "lost" is an error on a connection that has gone, on which rollback()
\* raises too, so the exception leaves db_insert and reaches line 237.
DbInsert ==
    /\ pc = "persist"
    /\ is_connected(connection)
    /\ server_time < MaxTime
    /\ server_time' = server_time + 1
    /\ \E outcome \in {"commit", "rollback", "lost"} :
        /\ MayFail(outcome = "commit")
        /\ faults' = FaultsAfter(outcome = "commit")
        /\ CASE outcome = "commit" ->
                /\ rows' = Upsert(rows, video_metadata, server_time')
                /\ handled' = handled \cup {<<file, inputDir[file]>>}
                /\ connection' = connection
                /\ trace' = trace \o <<"db_insert", "commit">>
                /\ pc' = "mark"
             [] outcome = "rollback" ->
                /\ UNCHANGED <<rows, handled, connection>>
                /\ trace' = trace \o <<"db_insert", "rollback">>
                /\ pc' = "mark"
             [] outcome = "lost" ->
                /\ UNCHANGED <<rows, handled>>
                /\ connection' = "closed"
                /\ trace' = trace \o <<"db_insert", "db_insert:raise">>
                /\ pc' = AfterExcept
    /\ UNCHANGED <<CONFIG, parked, dirs, redis, exitBy, listing, file, file_hash, should_process,
                   video_metadata, raised, env>>

\* main.py:239-243: the else clause of the try statement; an exception of
\* r.set is raised outside the try block, so no except clause catches it.
Mark ==
    /\ pc = "mark"
    /\ \E ok \in BOOLEAN :
        /\ MayFail(ok)
        /\ faults' = FaultsAfter(ok)
        /\ IF ok
           THEN /\ redis' = r_set(file_hash, redis)
                /\ trace' = Log("set")
                /\ raised' = FALSE
           ELSE /\ redis' = redis
                /\ trace' = Log("set:raise")
                /\ raised' = TRUE
    /\ pc' = "finally"
    /\ UNCHANGED <<CONFIG, parked, dirs, rows, server_time, handled, connection, exitBy, listing, file,
                   file_hash, should_process, video_metadata, env>>

\* main.py:244-245 and move_processed_file: the finally clause; a failing
\* shutil.move (the file may be gone: FileNotFoundError) is logged and the
\* folders stay as they are. An exception that is
\* propagating then leaves the for and the while loop: the process ends.
MoveProcessedFile ==
    /\ pc = "finally"
    /\ \E ok \in BOOLEAN :
        /\ ok => Present(file)
        /\ Present(file) => MayFail(ok)
        /\ faults' = IF Present(file) THEN FaultsAfter(ok) ELSE faults
        /\ IF ok
           THEN LET d == ShutilMove([input |-> inputDir, processed |-> processedDir], file) IN
                /\ inputDir' = d.input
                /\ processedDir' = d.processed
                /\ trace' = Log("move")
           ELSE /\ UNCHANGED <<inputDir, processedDir>>
                /\ trace' = Log("move:raise")
    /\ IF raised
       THEN /\ pc' = "down"
            /\ exitBy' = "exception"
            /\ connection' = "None"
            /\ listing' = <<>>
       ELSE /\ pc' = "for"
            /\ UNCHANGED <<exitBy, connection, listing>>
    /\ raised' = FALSE
    /\ file_hash' = NoHash
    /\ should_process' = TRUE
    /\ video_metadata' = NoMeta
    /\ UNCHANGED <<CONFIG, parked, poseDir, stores, file, env>>

-----------------------------------------------------------------------------

Next ==
    \/ Arrive
    \/ Kill
    \/ Restart
    \/ ConfigExit
    \/ Start
    \/ ListDir
    \/ ForExhausted
    \/ ForOther
    \/ ForSelect
    \/ Sleep
    \/ Fingerprint
    \/ Exists
    \/ ExtractMetadata
    \/ IsCorrupted
    \/ PoseDetection
    \/ SkipInsert
    \/ DbInsert
    \/ Mark
    \/ MoveProcessedFile

Spec == Init /\ [][Next]_vars

-----------------------------------------------------------------------------
(* Two instances of the process on the same folders and the same stores *)

\* The operating system lets the other instance run: the instance that was
\* running is parked with its pc and its locals.
Switch ==
    /\ parked.pc # "absent"
    /\ parked' = ProcessState(pc, exitBy, connection, listing, file, file_hash,
                              should_process, video_metadata, raised, trace)
    /\ pc' = parked.pc
    /\ exitBy' = parked.exitBy
    /\ connection' = parked.connection
    /\ listing' = parked.listing
    /\ file' = parked.file
    /\ file_hash' = parked.file_hash
    /\ should_process' = parked.should_process
    /\ video_metadata' = parked.video_metadata
    /\ raised' = parked.raised
    /\ trace' = parked.trace
    /\ UNCHANGED <<CONFIG, dirs, stores, env, faults>>

\* Two instances are launched with a valid configuration; no collaborator
\* fails and no instance is killed.
InitTwo ==
    /\ inputDir = [n \in FileNames |-> NoFile]
    /\ processedDir = [n \in FileNames |-> NoFile]
    /\ poseDir = {}
    /\ redis = {}
    /\ rows = {}
    /\ server_time = 0
    /\ connection = "None"
    /\ pc = "start"
    /\ exitBy = "none"
    /\ listing = <<>>
    /\ file = NoName
    /\ file_hash = NoHash
    /\ should_process = TRUE
    /\ video_metadata = NoMeta
    /\ raised = FALSE
    /\ trace = <<>>
    /\ handled = {}
    /\ arrivals = 0
    /\ faults = MaxFaults
    /\ kills = MaxKills
    /\ CONFIG = expected_config_keys
    /\ parked = Launched

NextTwo ==
    \/ Arrive
    \/ Start
    \/ ListDir
    \/ ForExhausted
    \/ ForOther
    \/ ForSelect
    \/ Sleep
    \/ Fingerprint
    \/ Exists
    \/ ExtractMetadata
    \/ IsCorrupted
    \/ PoseDetection
    \/ DbInsert
    \/ Mark
    \/ MoveProcessedFile
    \/ Switch

SpecTwo == InitTwo /\ [][NextTwo]_vars

-----------------------------------------------------------------------------
(* Vocabulary of the properties *)

Events(t) == {t[i] : i \in DOMAIN t}
Last(t) == t[Len(t)]
Times(t, e) == Cardinality({i \in DOMAIN t : t[i] = e})
RowsOf(table, n) == {r \in table : r.video_filename = n}

\* The step that ends the handling of `file`: the for loop goes on, or an
\* exception leaves it and ends the process.
IterationEnds ==
    /\ pc \in PerFile
    /\ pc' = "for" \/ (pc' = "down" /\ exitBy' = "exception")

\* The calls of the pipeline proper.
PipelineCalls == {"extract_metadata", "is_corrupted", "is_corrupted:raise",
                  "pose_detection", "pose_detection:raise", "db_insert"}
Raises == {"md5:raise", "exists:raise", "is_corrupted:raise",
           "pose_detection:raise", "db_insert:raise"}

\* `file` went from the input folder to the processed folder in this step.
Relocated ==
    /\ inputDir[file] # NoFile
    /\ inputDir'[file] = NoFile
    /\ processedDir'[file] = inputDir[file]

-----------------------------------------------------------------------------
(* C1  Always-relocate: whatever fails in fingerprinting, the dedup lookup, *)
(* metadata extraction, the corruption check, pose extraction or            *)
(* persistence, the step that ends a selected file's iteration leaves the   *)
(* file in the processed folder and out of the input folder. The claim's    *)
(* failures do not include shutil.move itself raising, which                *)
(* move_processed_file logs, leaving the file where it is.                  *)

AlwaysRelocate ==
    [][IterationEnds =>
          /\ trace' # <<>>
          /\ Last(trace') \in {"move", "move:raise"}
          /\ Last(trace') = "move" => Relocated]_vars

\* A file was relocated after a step of its pipeline raised.
AlwaysRelocateWitness ==
    /\ pc = "for"
    /\ trace # <<>>
    /\ Last(trace) = "move"
    /\ Events(trace) \cap Raises # {}
    /\ inputDir[file] = NoFile
    /\ processedDir[file] # NoFile

-----------------------------------------------------------------------------
(* C2  Idempotent skip: once r.exists has answered that the fingerprint of  *)
(* the file is in the dedup store (or has raised instead of answering),     *)
(* none of extract_metadata, is_corrupted,                                  *)
(* pose_detection and db_insert is called for the file, whether or not a    *)
(* row exists for it, and the iteration ends with the relocation of the     *)
(* file (move_processed_file is called; the file is in the processed folder *)
(* unless shutil.move itself raises).                                       *)

IdempotentSkip ==
    [][(Events(trace') \cap {"exists:hit", "exists:raise"} # {}) =>
          /\ Events(trace') \cap PipelineCalls = {}
          /\ IterationEnds =>
                /\ Last(trace') \in {"move", "move:raise"}
                /\ Last(trace') = "move" => Relocated]_vars

\* After a restart, a file whose fingerprint was marked is skipped and
\* relocated although no row is stored under its name.
IdempotentSkipWitness ==
    /\ pc = "for"
    /\ kills > 0
    /\ "exists:hit" \in Events(trace)
    /\ Last(trace) = "move"
    /\ processedDir[file] # NoFile
    /\ RowsOf(rows, file) = {}

-----------------------------------------------------------------------------
(* C3  Fingerprint invariant: a fingerprint is in the dedup store if and    *)
(* only if a row for a file with those bytes has been committed and that    *)
(* file has been relocated out of the input folder. It is read here at the  *)
(* states between the handling of two files, where no step of one file's    *)
(* handling is half done.                                                   *)

FingerprintInvariant ==
    pc \in {"for", "sleep", "scan"} =>
        \A b \in Bytes :
            md5(b) \in redis <=>
                \E n \in FileNames : <<n, b>> \in handled /\ processedDir[n] = b

-----------------------------------------------------------------------------
(* C4  Error isolation: no error raised by a step of one file's processing  *)
(* ends the scan loop: the process is never down because of an exception.   *)

ErrorIsolation == ~(pc = "down" /\ exitBy = "exception")

-----------------------------------------------------------------------------
(* C5  Crash retry, as claimed: when the process is killed while a file is  *)
(* being handled (and nothing else fails), the file is still in the input   *)
(* folder and its fingerprint is not in the dedup store.                    *)

CrashRetryAsClaimed ==
    (pc = "down" /\ exitBy = "kill" /\ file # NoName /\ faults = 0) =>
        /\ inputDir[file] # NoFile
        /\ md5(inputDir[file]) \notin redis

(* C5, amended: when the process is killed while a file is being handled,   *)
(* the file is still in the input folder, and its fingerprint is in the     *)
(* dedup store only if the kill came after r.set of this attempt or the     *)
(* fingerprint was there before the attempt passed the dedup gate; in a     *)
(* later run the dedup check sends the file through the full pipeline       *)
(* exactly when its fingerprint is not in the store, and to relocation      *)
(* without the pipeline when it is.                                         *)

Killed == pc \in PerFile /\ pc' = "down" /\ exitBy' = "kill"
Checked == pc = "exists" /\ pc' \in PerFile \ {"exists"} /\ Last(trace') # "exists:raise"

CrashRetry ==
    [][/\ Killed =>
            /\ inputDir'[file] # NoFile
            /\ md5(inputDir'[file]) \in redis' =>
                    "set" \in Events(trace) \/ "exists:miss" \notin Events(trace)
       /\ Checked =>
            /\ md5(inputDir[file]) \notin redis => pc' = "metadata"
            /\ md5(inputDir[file]) \in redis => pc' = "finally"]_vars

\* After a kill that came when the file's row was committed and its
\* fingerprint not yet marked, the restarted process runs the pipeline for
\* the file again.
CrashRetryWitness ==
    /\ kills > 0
    /\ arrivals = 1
    /\ faults = 0
    /\ pc = "metadata"
    /\ <<file, inputDir[file]>> \in handled
    /\ md5(inputDir[file]) \notin redis

-----------------------------------------------------------------------------
(* C6  Crash safety of recorded data, as claimed: when nothing fails and    *)
(* the process has been killed and restarted and has completed a scan       *)
(* cycle, every candidate file that has left the input folder has its       *)
(* fingerprint marked and exactly one row under its filename.               *)

CrashSafetyAsClaimed ==
    (faults = 0 /\ kills > 0 /\ pc = "sleep") =>
        \A n \in FileNames :
            processedDir[n] # NoFile =>
                /\ md5(processedDir[n]) \in redis
                /\ Cardinality(RowsOf(rows, n)) = 1

(* C6, amended: when nothing fails but the process being killed, every      *)
(* candidate file that has left the input folder has its fingerprint        *)
(* marked, and has exactly one row under its filename unless it was skipped *)
(* because its bytes had been recorded under another filename; no filename  *)
(* has two rows.                                                            *)

CrashSafety ==
    faults = 0 =>
        /\ \A n \in FileNames : Cardinality(RowsOf(rows, n)) <= 1
        /\ \A n \in FileNames :
            processedDir[n] # NoFile =>
                /\ md5(processedDir[n]) \in redis
                /\ \/ Cardinality(RowsOf(rows, n)) = 1
                   \/ /\ <<n, processedDir[n]>> \notin handled
                      /\ \E n2 \in FileNames \ {n} : <<n2, processedDir[n]>> \in handled

\* The process was killed between marking and relocation: the only file
\* that ever arrived is found marked after the restart, is skipped, and
\* leaves the input folder with its one row.
CrashSafetyWitness ==
    /\ faults = 0
    /\ kills > 0
    /\ arrivals = 1
    /\ pc = "for"
    /\ "exists:hit" \in Events(trace)
    /\ Last(trace) = "move"
    /\ processedDir[file] # NoFile
    /\ Cardinality(RowsOf(rows, file)) = 1
    /\ md5(processedDir[file]) \in redis

-----------------------------------------------------------------------------
(* C7  Upsert overwrite: a committed db_insert leaves exactly one row for   *)
(* the filename and at most one for every other, that row carries every     *)
(* field of the record handed in, and its processed_at is later than the    *)
(* one of the row it replaces.                                              *)

Committed == pc = "persist" /\ pc' = "mark" /\ Last(trace') = "commit"

UpsertOverwrite ==
    [][Committed =>
          /\ \A n \in FileNames : Cardinality(RowsOf(rows', n)) <= 1
          /\ \E r \in rows' :
                /\ RowsOf(rows', file) = {r}
                /\ r.video_filename = video_metadata.video_filename
                /\ r.duration_seconds = video_metadata.duration_seconds
                /\ r.resolution = video_metadata.resolution
                /\ r.codec = video_metadata.codec
                /\ r.frame_rate = video_metadata.frame_rate
                /\ r.corrupted = video_metadata.corrupted
                /\ r.pose_file_path = video_metadata.pose_file_path
                /\ \A old \in RowsOf(rows, file) : r.processed_at > old.processed_at
          /\ \A r \in rows : r.video_filename # file => r \in rows']_vars

\* Two files of the same name and different bytes were recorded in turn:
\* the one row of the name is the second record's.
UpsertOverwriteWitness ==
    \E n \in FileNames :
        /\ <<n, 1>> \in handled
        /\ <<n, 2>> \in handled
        /\ \E r \in rows : RowsOf(rows, n) = {r} /\ r.processed_at = 2

-----------------------------------------------------------------------------
(* C8  Upsert failure handling: a failed upsert is reported to the scan     *)
(* loop: db_insert does not return normally to its caller after an error,   *)
(* so the loop does not go on as if the record had been persisted.          *)

UpsertFailureReported ==
    ~(pc = "mark" /\ trace # <<>> /\ Last(trace) = "rollback")

-----------------------------------------------------------------------------
(* C9  Corrupted short-circuit: for a file that passed the dedup gate and   *)
(* that is_corrupted classifies as corrupted, pose_detection is not called  *)
(* and the record handed to db_insert has corrupted = True and              *)
(* pose_file_path = "N/A"; for a file classified as not corrupted the       *)
(* record has corrupted = False.                                            *)

CorruptedShortCircuit ==
    (pc \in PerFile /\ "is_corrupted" \in Events(trace)) =>
        IF is_corrupted(Video(inputDir[file]))
        THEN /\ Events(trace) \cap {"pose_detection", "pose_detection:raise"} = {}
             /\ pc = "persist" =>
                    /\ video_metadata.corrupted = "True"
                    /\ video_metadata.pose_file_path = "N/A"
        ELSE pc = "persist" => video_metadata.corrupted = "False"

\* A corrupted file's record is about to be handed to db_insert.
CorruptedShortCircuitWitness ==
    /\ pc = "persist"
    /\ is_connected(connection)
    /\ is_corrupted(Video(inputDir[file]))
    /\ video_metadata.corrupted = "True"

-----------------------------------------------------------------------------
(* C10  Exactly-once persistence per attempt: an attempt that reaches the   *)
(* relocation of its file without any step having raised has made exactly   *)
(* one committed upsert of the file's record.                               *)

ExactlyOnePersistence ==
    (pc = "finally" /\ "exists:miss" \in Events(trace) /\ Events(trace) \cap Raises = {}) =>
        Times(trace, "commit") = 1

-----------------------------------------------------------------------------
(* C11  Mark only on success: r.set is called for a file only after every   *)
(* step of its attempt (fingerprint, dedup check that missed, metadata,     *)
(* corruption check, pose extraction, persistence) has returned without     *)
(* raising into the scan loop; a step that raises sends the attempt to      *)
(* relocation, and nothing is marked in an attempt in which a step raised.  *)

Marks == pc = "mark" /\ pc' = "finally"

MarkOnlyOnSuccess ==
    [][/\ Marks =>
            /\ Events(trace) \cap Raises = {}
            /\ {"md5", "exists:miss", "extract_metadata", "is_corrupted"} \subseteq Events(trace)
       /\ redis' # redis => Marks
       /\ (trace' # trace /\ trace' # <<>> /\ Last(trace') \in Raises) =>
            /\ pc' = "finally"
            /\ redis' = redis
       /\ (Events(trace') \cap Raises # {}) =>
            /\ "set" \notin Events(trace')
            /\ redis' = redis]_vars

\* The fingerprint could not be computed: the file was relocated and the
\* dedup store is still empty.
MarkOnlyOnSuccessWitness ==
    /\ pc = "for"
    /\ trace = <<"md5:raise", "move">>
    /\ redis = {}
    /\ processedDir[file] # NoFile

-----------------------------------------------------------------------------
(* C12  Per-file step order: the calls made for one file occur in the order *)
(* fingerprint, dedup check, metadata, corruption check, pose extraction,   *)
(* persist, dedup mark, relocate, each at most once; relocation is the last *)
(* of them; and the handling of the next file begins only after the         *)
(* relocation step of the current one.                                      *)

Rank(e) ==
    CASE e \in {"md5", "md5:raise"} -> 1
      [] e \in {"exists:hit", "exists:miss", "exists:raise"} -> 2
      [] e = "extract_metadata" -> 3
      [] e \in {"is_corrupted", "is_corrupted:raise"} -> 5
      [] e \in {"pose_detection", "pose_detection:raise"} -> 6
      [] e = "db_insert" -> 7
      [] e \in {"commit", "rollback", "db_insert:raise"} -> 8
      [] e \in {"set", "set:raise"} -> 9
      [] e \in {"move", "move:raise"} -> 10
      [] OTHER -> 4

InOrder(t) == \A i, j \in DOMAIN t : i < j => Rank(t[i]) < Rank(t[j])

StepOrder ==
    [][/\ InOrder(trace')
       /\ (pc' = "hash" /\ pc # "hash") =>
            /\ pc = "for"
            /\ trace = <<>> \/ Rank(Last(trace)) = 10]_vars

\* All eight steps were made for a file, in order, and the next candidate
\* of the listing has not been touched.
StepOrderWitness ==
    /\ pc = "for"
    /\ trace = <<"md5", "exists:miss", "extract_metadata", "is_corrupted",
                 "pose_detection", "db_insert", "commit", "set", "move">>
    /\ listing # <<>>
    /\ Head(listing) \in Candidates

-----------------------------------------------------------------------------
(* C13  Transient external-resource errors degrade instead of aborting:     *)
(* when the dedup store is unreachable while a file is being handled        *)
(* (r.exists raises), the remaining pipeline steps of the file, metadata    *)
(* and the corruption check among them, are still carried out before the    *)
(* file is relocated.                                                       *)

TransientErrorsDegrade ==
    (pc = "finally" /\ "exists:raise" \in Events(trace)) =>
        {"extract_metadata", "is_corrupted"} \subseteq Events(trace)

-----------------------------------------------------------------------------
(* C14  Metadata partiality: extract_metadata never raises past its         *)
(* boundary (the loop always goes on to the corruption check) and returns   *)
(* a record carrying the filename; when an exception is raised after k of   *)
(* the four assignments, the first k fields have their values and the       *)
(* others their defaults; when only codec detection fails, the record       *)
(* handed to db_insert, and the row committed from it, has the frame rate,  *)
(* the derived duration and the resolution of the clip and codec "N/A".     *)

\* The fields a complete probe gives for the bytes of a file: frame rate,
\* duration in milliseconds, resolution, codec.
ClipFields(b) ==
    CASE b = 1 -> <<"5.00", 2000, "640 x 480", "h264">>
      [] b = 2 -> <<"0.00", 0, "0 x 0", "N/A">>
      [] OTHER -> <<"29.97", 1001, "1280 x 720", "vp9">>

\* The number of assignments the probe recorded in `t` completed.
Populated(t) ==
    IF \E k \in 0..3 : Last(t) = "except:" \o ToString(k)
    THEN CHOOSE k \in 0..3 : Last(t) = "except:" \o ToString(k)
    ELSE 4

MetadataPartiality ==
    [][/\ (pc = "metadata" /\ pc' \in PerFile /\ trace' # trace) => pc' = "corrupt"
       /\ (pc = "metadata" /\ pc' = "corrupt") =>
            LET m == video_metadata'
                c == ClipFields(inputDir[file])
                k == Populated(trace')
            IN /\ m # NoMeta
               /\ m.video_filename = file
               /\ m.frame_rate = IF k >= 1 THEN c[1] ELSE "0.0"
               /\ m.duration_seconds = IF k >= 2 THEN c[2] ELSE 0
               /\ m.resolution = IF k >= 3 THEN c[3] ELSE "N/A"
               /\ m.codec = IF k >= 4 /\ Last(trace') # "ffprobe:fail"
                            THEN c[4] ELSE "N/A"
               /\ m.corrupted = "None"
               /\ m.pose_file_path = "N/A"
       /\ (pc' = "persist" /\ "ffprobe:fail" \in Events(trace')) =>
            LET c == ClipFields(inputDir'[file])
            IN /\ video_metadata'.frame_rate = c[1]
               /\ video_metadata'.duration_seconds = c[2]
               /\ video_metadata'.resolution = c[3]
               /\ video_metadata'.codec = "N/A"
       /\ (Committed /\ "ffprobe:fail" \in Events(trace)) =>
            \E r \in rows' :
                /\ RowsOf(rows', file) = {r}
                /\ r.duration_seconds = ClipFields(inputDir[file])[2]
                /\ r.resolution = ClipFields(inputDir[file])[3]
                /\ r.codec = "N/A"]_vars

\* A row was committed for a valid clip whose codec detection had failed.
MetadataPartialityWitness ==
    /\ pc = "mark"
    /\ Last(trace) = "commit"
    /\ "ffprobe:fail" \in Events(trace)
    /\ inputDir[file] = 1
    /\ \E r \in rows :
        /\ r.video_filename = file
        /\ r.duration_seconds = 2000
        /\ r.resolution = "640 x 480"
        /\ r.codec = "N/A"
        /\ r.corrupted = "False"

-----------------------------------------------------------------------------
(* C15  Configuration fail-fast: when one of the seven required keys is     *)
(* missing from config.json, the process never gets past startup: it goes   *)
(* down with a non-zero exit status before the scan loop, the input folder  *)
(* is never listed, and no file is moved, no dedup entry and no result row  *)
(* written (files may still arrive in the input folder).                    *)

RequiredKeys == {"input_folder", "pose_data_folder", "processed_folder",
                 "scan_interval_sec", "model_path", "supported_file_formats",
                 "db_table_name"}

ConfigMissing == \E key \in RequiredKeys : key \notin CONFIG

ConfigFailFast ==
    [][ConfigMissing =>
          /\ pc' \in {"start", "down"}
          /\ (pc = "start" /\ pc' = "down" /\ exitBy' # "kill") =>
                ExitStatus(exitBy') # 0
          /\ listing' = <<>> /\ file' = NoName /\ trace' = <<>>
          /\ redis' = {} /\ rows' = {} /\ poseDir' = {}
          /\ connection' = "None"
          /\ processedDir' = processedDir
          /\ \A n \in FileNames : inputDir[n] # NoFile => inputDir'[n] = inputDir[n]]_vars

\* The process has exited through sys.exit(1) with a candidate file waiting
\* in the input folder.
ConfigFailFastWitness ==
    /\ CONFIG = RequiredKeys \ {"db_table_name"}
    /\ pc = "down"
    /\ exitBy = "sys.exit"
    /\ \E n \in Candidates : inputDir[n] # NoFile
    /\ \A n \in FileNames : processedDir[n] = NoFile

-----------------------------------------------------------------------------
(* C16  Two-instance double processing: with two instances on the same      *)
(* input folder and the same dedup store, an instance passes the dedup      *)
(* check exactly when the fingerprint is unmarked at that moment, and       *)
(* nothing between r.exists and r.set keeps the other instance out: as long *)
(* as both are between the two calls for the same fingerprint, it is        *)
(* unmarked. The interleaving in which both run the whole pipeline, upsert  *)
(* included, for the same file before either marks is                       *)
(* DoubleProcessingWitness.                                                 *)

\* Between a passed dedup check and r.set.
InWindow(p) == p \in {"metadata", "corrupt", "pose", "persist", "mark"}

FullPipeline == {"md5", "exists:miss", "extract_metadata", "is_corrupted",
                 "pose_detection", "db_insert", "commit"}

DoubleProcessing ==
    [][/\ (pc = "exists" /\ InWindow(pc') /\ parked' = parked) =>
            file_hash \notin redis
       /\ (/\ InWindow(pc') /\ InWindow(parked'.pc)
           /\ file_hash' = parked'.file_hash) => file_hash' \notin redis']_vars

\* Both instances have committed an upsert for the same file and neither
\* has marked its fingerprint yet.
DoubleProcessingWitness ==
    /\ pc = "mark" /\ parked.pc = "mark"
    /\ file = parked.file
    /\ file_hash = parked.file_hash
    /\ FullPipeline \subseteq Events(trace)
    /\ FullPipeline \subseteq Events(parked.trace)
    /\ "set" \notin Events(trace) \cup Events(parked.trace)
    /\ file_hash \notin redis
    /\ Cardinality(RowsOf(rows, file)) = 1
    /\ server_time = 2

-----------------------------------------------------------------------------
(* C17  Success-path-only recording.  As claimed: a row is written or a     *)
(* fingerprint marked only in an attempt in which no step raised.           *)
(* SuccessPathOnlyAsClaimed states that over the whole attempt, r.set       *)
(* included.                                                                *)

SuccessPathOnlyAsClaimed ==
    [][IterationEnds =>
          ({"commit", "set"} \cap Events(trace') # {} =>
              Events(trace') \cap (Raises \cup {"set:raise"}) = {})]_vars

(* C17, as the code has it: the row is written only when no step of the    *)
(* attempt has raised before db_insert commits, and the fingerprint is      *)
(* marked only when no step of the attempt has raised; an attempt in which  *)
(* a step up to persistence raises to the per-file boundary ends with the   *)
(* file relocated (unless shutil.move fails), no row written and no         *)
(* fingerprint marked in it. An r.set that raises after the commit leaves   *)
(* the row written and the fingerprint unmarked.                            *)
SuccessPathOnly ==
    [][/\ rows' # rows => Committed
       /\ Committed => Events(trace) \cap Raises = {}
       /\ redis' # redis =>
            /\ pc = "mark" /\ Last(trace') = "set"
            /\ Events(trace') \cap (Raises \cup {"set:raise"}) = {}
       /\ (IterationEnds /\ Events(trace') \cap Raises # {}) =>
            /\ {"commit", "set", "set:raise"} \cap Events(trace') = {}
            /\ rows' = rows /\ redis' = redis
            /\ pc' = "for"
            /\ Last(trace') = "move" => Relocated
       /\ (IterationEnds /\ "set:raise" \in Events(trace')) =>
            /\ redis' = redis
            /\ "commit" \in Events(trace') => RowsOf(rows', file) # {}
            /\ pc' = "down"]_vars

\* Writing the pose sidecar failed: the file is in the processed folder, no
\* row and no mark were written.
SuccessPathOnlyWitness ==
    /\ pc = "for"
    /\ trace = <<"md5", "exists:miss", "extract_metadata", "is_corrupted",
                 "pose_detection:raise", "move">>
    /\ processedDir[file] # NoFile /\ inputDir[file] = NoFile
    /\ rows = {} /\ redis = {}

-----------------------------------------------------------------------------
(* C18  Skip path frame: the handling of a candidate file whose fingerprint *)
(* is already marked (fingerprinting, the dedup lookup that hits, the       *)
(* relocation) changes nothing but the location of that file: the dedup     *)
(* store, every row of the result store with its processed_at, the pose     *)
(* folder and the other files are as before; no row appears under the name  *)
(* of the skipped file.                                                     *)

\* A step of the program on the current file.
FileStep == pc \in PerFile /\ trace' # trace

SkipFrame ==
    [][/\ (FileStep /\ pc \in {"hash", "exists"}) =>
            /\ redis' = redis /\ rows' = rows /\ server_time' = server_time
            /\ inputDir' = inputDir /\ processedDir' = processedDir
            /\ poseDir' = poseDir
       /\ (FileStep /\ "exists:hit" \in Events(trace')) =>
            /\ redis' = redis
            /\ rows' = rows
            /\ server_time' = server_time
            /\ RowsOf(rows', file) = RowsOf(rows, file)
            /\ poseDir' = poseDir
            /\ \A n \in FileNames \ {file} :
                    inputDir'[n] = inputDir[n] /\ processedDir'[n] = processedDir[n]
            /\ \/ inputDir' = inputDir /\ processedDir' = processedDir
               \/ Relocated
            /\ pc' \in {"finally", "for"}]_vars

\* A second file with the bytes of a processed one was skipped and
\* relocated: the only row is still the one of the first file.
SkipFrameWitness ==
    /\ pc = "for"
    /\ kills = 0 /\ faults = 0
    /\ trace = <<"md5", "exists:hit", "move">>
    /\ processedDir[file] # NoFile
    /\ RowsOf(rows, file) = {}
    /\ \E r \in rows :
        /\ rows = {r}
        /\ r.video_filename # file
        /\ processedDir[r.video_filename] = processedDir[file]
        /\ r.processed_at = 1
    /\ redis = {md5(processedDir[file])}

-----------------------------------------------------------------------------
(* C19  Dedup store monotonicity: no step, of the program or of its         *)
(* environment (kills and restarts included), removes a fingerprint from    *)
(* the dedup store; a step that adds one is the r.set of a file that was    *)
(* not skipped, it adds exactly the digest of the bytes read from that file *)
(* at the start of the iteration, and it happens at most once per           *)
(* iteration.                                                               *)

DedupMonotone ==
    [][/\ redis \subseteq redis'
       /\ redis' # redis =>
            /\ pc = "mark" /\ pc' = "finally"
            /\ should_process
            /\ trace[1] = "md5" /\ trace[2] = "exists:miss"
            /\ file_hash = md5(inputDir[file])
            /\ redis' = redis \cup {file_hash}
            /\ Cardinality(redis') = Cardinality(redis) + 1
            /\ Times(trace, "set") = 0 /\ Times(trace', "set") = 1]_vars

\* After a kill and a restart the store holds the digests of two files.
DedupMonotoneWitness ==
    /\ redis = {md5(1), md5(2)}
    /\ kills > 0
    /\ pc = "finally"
    /\ Last(trace) = "set"

====
